---------------------------- MODULE Spec2Model ----------------------------
(***************************************************************************)
(* A state-machine model of the Wallpaper Engine video viewer              *)
(* (src/main.pyw): the library index, the folder navigation, pagination,   *)
(* the adaptive grid, the lazy preview life cycle of the tiles, the        *)
(* selection, the debounced reload and the batch actions.                  *)
(*                                                                         *)
(* Every handler of MainWindow is one action.  Qt runs the handlers on one *)
(* thread, one at a time; the events Qt posts to itself (deleteLater, the  *)
(* queued show of a widget added to a visible parent) and the nested event *)
(* loops of QMenu.exec and QMessageBox are explicit state.                 *)
(*                                                                         *)
(* Strings that the program orders (titles) are sequences of code points;  *)
(* item ids are the numbers their digit strings denote.                    *)
(***************************************************************************)
EXTENDS Integers, Sequences, FiniteSets, TLC

(***************************************************************************)
(* Program constants                                                       *)
(***************************************************************************)
MIN_SPACING == 8

MIN_TILE_EDGE == 180

page_size == 45

DebounceInterval == 500

(***************************************************************************)
(* Bounds of the model                                                     *)
(***************************************************************************)
\* widest viewport the metrics specification draws
MaxWidth == 800

\* number of items of the large library (more than one page)
BigCount == 47

\* milliseconds one step of the clock advances
TickMs == 250

\* watcher notifications that may wait in the event queue
MaxQueue == 1

(***************************************************************************)
(* Small helpers                                                           *)
(***************************************************************************)
Max(a, b) == IF a >= b THEN a ELSE b

Min(a, b) == IF a <= b THEN a ELSE b

Range(s) == {s[i] : i \in DOMAIN s}

RECURSIVE FlattenSeq(_)
FlattenSeq(ss) ==
    IF ss = <<>> THEN <<>> ELSE Head(ss) \o FlattenSeq(Tail(ss))

\* Python's str comparison: lexicographic on code points
RECURSIVE StrLess(_, _)
StrLess(a, b) ==
    IF b = <<>> THEN FALSE
    ELSE IF a = <<>> THEN TRUE
    ELSE IF Head(a) # Head(b) THEN Head(a) < Head(b)
    ELSE StrLess(Tail(a), Tail(b))

\* str(n) for a directory name made of digits, as code points
RECURSIVE DigitStr(_)
DigitStr(n) ==
    IF n < 10 THEN <<48 + n>> ELSE Append(DigitStr(n \div 10), 48 + (n % 10))

(***************************************************************************)
(* Data model                                                              *)
(***************************************************************************)
\* FolderNode(title, items, subfolders)
FolderNode(title, items, subfolders) ==
    [title |-> title, items |-> items, subfolders |-> subfolders]

\* VideoItem(id, title, preview_path, video_path, mtime, size, rating, vtype);
\* a path under the workshop root is the directory entry and the file name
VideoItem(id, title, preview_file, video_file, mtime, size, rating, vtype) ==
    [id |-> id, title |-> title,
     preview_path |-> [dir |-> id, file |-> preview_file],
     video_path |-> [dir |-> id, file |-> video_file],
     mtime |-> mtime, size |-> size, rating |-> rating, vtype |-> vtype]

NoItem == VideoItem(0, <<>>, "", "", 0, 0, "", "")

NoNode == FolderNode(<<>>, <<>>, <<>>)

\* "未命名文件夹"
DefaultFolderTitle == <<26410, 21629, 21517, 25991, 20214, 22841>>

(***************************************************************************)
(* The external configuration: config.json                                 *)
(***************************************************************************)
\* a variant that reads an unreadable file as an empty configuration
load_we_config_lenient(cfg) ==
    IF cfg.kind = "unreadable"
    THEN [raised |-> FALSE, value |-> [kind |-> "ok", users |-> <<>>]]
    ELSE [raised |-> FALSE, value |-> cfg]

\* load_we_config: a missing file or invalid JSON raises
load_we_config(cfg) ==
    IF cfg.kind = "unreadable"
    THEN [raised |-> TRUE, value |-> <<>>]
    ELSE [raised |-> FALSE, value |-> cfg]

\* extract_folders_list: the first top-level section with a non-empty folder
\* list, general.browser.folders before general.folders; a JSON value that is
\* no object has no .items() and raises
extract_folders_list(we_cfg) ==
    IF we_cfg.kind # "ok"
    THEN [raised |-> TRUE, value |-> <<>>]
    ELSE LET Pick(u) == IF u.browser # <<>> THEN u.browser ELSE u.general
             F[i \in 1..(Len(we_cfg.users) + 1)] ==
                 IF i > Len(we_cfg.users) THEN <<>>
                 ELSE IF we_cfg.users[i].isdict /\ Pick(we_cfg.users[i]) # <<>>
                      THEN Pick(we_cfg.users[i])
                      ELSE F[i + 1]
         IN [raised |-> FALSE, value |-> F[1]]

RECURSIVE parse_folder(_)
parse_folder(fobj) ==
    FolderNode(IF fobj.titled THEN fobj.title ELSE DefaultFolderTitle,
               fobj.items,
               [i \in 1..Len(fobj.subfolders) |-> parse_folder(fobj.subfolders[i])])

build_folder_tree(folders_list) ==
    [i \in 1..Len(folders_list) |-> parse_folder(folders_list[i])]

(***************************************************************************)
(* The workshop directory scan                                             *)
(***************************************************************************)
\* str.lower() of the media type tags the libraries use
Lower(s) ==
    CASE s = "Video" -> "video"
      [] s = "Scene" -> "scene"
      [] OTHER -> s

\* one directory entry accepted by the per-entry checks of the scan
EntryAccepted(e) ==
    /\ e.isdigit
    /\ e.isdir
    /\ e.project = "ok"
    /\ Lower(e.vtype) = "video"
    /\ e.preview_file # "" /\ e.preview_exists
    /\ e.video_file # "" /\ e.video_exists

\* an entry whose project.json parses to a value that is no object: pdata.get
\* raises outside the try block
EntryRaises(e) ==
    /\ e.isdigit
    /\ e.isdir
    /\ e.project = "nonobject"

scan_workshop_items(entries) ==
    IF \E e \in entries : EntryRaises(e)
    THEN [raised |-> TRUE, value |-> <<>>]
    ELSE LET ok == {e \in entries : EntryAccepted(e)}
             ids == {e.name : e \in ok}
             Of(i) == CHOOSE e \in ok : e.name = i
         IN [raised |-> FALSE,
             value |-> [i \in ids |->
                          VideoItem(i, Of(i).title, Of(i).preview_file,
                                    Of(i).video_file, Of(i).mtime, Of(i).size,
                                    Of(i).rating, Lower(Of(i).vtype))]]

\* a variant of walk that stops at the node's own items
walk_shallow(node) == Range(node.items)

RECURSIVE walk(_)
walk(node) ==
    Range(node.items)
        \cup UNION {walk(node.subfolders[i]) : i \in DOMAIN node.subfolders}

\* sorted() of a set of digit strings
RECURSIVE SortedIds(_)
SortedIds(S) ==
    IF S = {} THEN <<>>
    ELSE LET m == CHOOSE x \in S :
                    \A y \in S \ {x} : StrLess(DigitStr(x), DigitStr(y))
         IN <<m>> \o SortedIds(S \ {m})

collect_unassigned_items(idmap, roots) ==
    LET assigned == UNION {walk(roots[i]) : i \in DOMAIN roots}
    IN SortedIds({i \in DOMAIN idmap : i \notin assigned})

(***************************************************************************)
(* Grid metrics                                                            *)
(***************************************************************************)
\* a variant that forgets the spacing between the tiles when counting columns
compute_grid_metrics_no_spacing(vw) ==
    LET w == Max(0, vw - 2 * MIN_SPACING)
        cols == Max(1, w \div MIN_TILE_EDGE)
        edge == (w - (cols - 1) * MIN_SPACING) \div cols
    IN IF w <= 0 THEN [cols |-> 1, edge |-> MIN_TILE_EDGE]
       ELSE [cols |-> cols, edge |-> Max(edge, MIN_TILE_EDGE)]

\* a variant that returns the quotient without the lower limit on the edge
compute_grid_metrics_unclamped(vw) ==
    LET w == Max(0, vw - 2 * MIN_SPACING)
        cols == Max(1, (w + MIN_SPACING) \div (MIN_TILE_EDGE + MIN_SPACING))
    IN [cols |-> cols, edge |-> (w - (cols - 1) * MIN_SPACING) \div cols]

compute_grid_metrics(vw) ==
    LET w == Max(0, vw - 2 * MIN_SPACING)
        cols == Max(1, (w + MIN_SPACING) \div (MIN_TILE_EDGE + MIN_SPACING))
        edge == (w - (cols - 1) * MIN_SPACING) \div cols
    IN IF w <= 0 THEN [cols |-> 1, edge |-> MIN_TILE_EDGE]
       ELSE [cols |-> cols, edge |-> Max(edge, MIN_TILE_EDGE)]

(***************************************************************************)
(* Filter, sort, paginate                                                  *)
(***************************************************************************)
\* a variant whose first entry orders by size
KeyLess_size_first(idx, a, b) ==
    CASE idx \in {0, 2, 3} -> a.size < b.size
      [] idx = 1 -> a.mtime < b.mtime
      [] idx \in {4, 5} -> StrLess(a.title, b.title)
      [] OTHER -> a.mtime < b.mtime

\* key_funcs[idx](a) < key_funcs[idx](b)
KeyLess(idx, a, b) ==
    CASE idx \in {0, 1} -> a.mtime < b.mtime
      [] idx \in {2, 3} -> a.size < b.size
      [] idx \in {4, 5} -> StrLess(a.title, b.title)
      [] OTHER -> a.mtime < b.mtime

\* list.sort(key=..., reverse=...): stable in both directions, so among equal
\* keys the earlier position stays first
SortIds(ids, idx, idmap) ==
    LET reverse == idx \in {0, 2, 4}
        Before(i, j) ==
            LET a == idmap[ids[i]]
                b == idmap[ids[j]]
            IN IF reverse
               THEN KeyLess(idx, b, a) \/ (~KeyLess(idx, a, b) /\ i < j)
               ELSE KeyLess(idx, a, b) \/ (~KeyLess(idx, b, a) /\ i < j)
        order == SortSeq([i \in 1..Len(ids) |-> i], Before)
    IN [k \in 1..Len(ids) |-> ids[order[k]]]

current_videos_filtered_sorted(item_ids, idmap, rating, idx) ==
    LET Keep(i) == /\ i \in DOMAIN idmap
                   /\ (rating => idmap[i].rating = "Mature")
    IN SortIds(SelectSeq(item_ids, Keep), idx, idmap)

RECURSIVE count_items_recursive(_)
count_items_recursive(node) ==
    LET C[i \in 0..Len(node.subfolders)] ==
            IF i = 0 THEN 0
            ELSE C[i-1] + count_items_recursive(node.subfolders[i])
    IN Len(node.items) + C[Len(node.subfolders)]

total_pages(total_tiles) ==
    Max(1, (total_tiles + page_size - 1) \div page_size)

(***************************************************************************)
(* The libraries and configurations the environment can present            *)
(***************************************************************************)
Id(k) == 1000000000 + k

TitleX == <<88>>

TitleY == <<89>>

TitleZ == <<90>>

Fobj(title, items, subfolders) ==
    [titled |-> TRUE, title |-> title, items |-> items, subfolders |-> subfolders]

CfgOf(folders) ==
    [kind |-> "ok",
     users |-> << [isdict |-> FALSE, browser |-> <<>>, general |-> <<>>],
                  [isdict |-> TRUE, browser |-> folders, general |-> <<>>] >>]

\* X{1,2}/Y{2,3} and Z{4, a dangling id}: item 2 is in X and in its subfolder
CfgA ==
    CfgOf(<< Fobj(TitleX, <<Id(1), Id(2)>>, << Fobj(TitleY, <<Id(2), Id(3)>>, <<>>) >>),
             Fobj(TitleZ, <<Id(4), Id(9)>>, <<>>) >>)

\* two root folders titled X; only the second has a subfolder Y
CfgDup ==
    CfgOf(<< Fobj(TitleX, <<Id(1)>>, <<>>),
             Fobj(TitleX, <<Id(2)>>, << Fobj(TitleY, <<Id(3)>>, <<>>) >>) >>)

\* as CfgA with Y removed from X
CfgNoY ==
    CfgOf(<< Fobj(TitleX, <<Id(1), Id(2)>>, <<>>),
             Fobj(TitleZ, <<Id(4), Id(9)>>, <<>>) >>)

\* two folders and three items left unassigned: five tiles at the root
CfgFive ==
    CfgOf(<< Fobj(TitleX, <<Id(1)>>, <<>>), Fobj(TitleZ, <<Id(4)>>, <<>>) >>)

\* config.json missing or not valid JSON
CfgUnreadable == [kind |-> "unreadable", users |-> <<>>]

\* one folder holding the first item of the library
CfgBig == CfgOf(<< Fobj(TitleX, <<Id(1)>>, <<>>) >>)

Entry(name, title, mtime, size, rating) ==
    [name |-> name, isdigit |-> TRUE, isdir |-> TRUE, project |-> "ok",
     title |-> title, vtype |-> "Video", rating |-> rating,
     mtime |-> mtime, size |-> size,
     preview_file |-> "preview.gif", preview_exists |-> TRUE,
     video_file |-> "video.mp4", video_exists |-> TRUE]

\* five videos; sizes and titles order them differently from the times
Good(k) ==
    Entry(Id(k), <<97 + ((k * 2) % 5)>>, 10 + k, 50 - (k % 3),
          IF k % 2 = 1 THEN "Mature" ELSE "Everyone")

LibA == {Good(k) : k \in 1..5}

\* item 2 gone, a scene and an entry with an unparsable project.json added
LibB ==
    (LibA \ {Good(2)})
        \cup {[Good(6) EXCEPT !.vtype = "Scene"], [Good(7) EXCEPT !.project = "badjson"]}

\* an entry whose project.json holds a JSON array
LibBroken == LibA \cup {[Good(8) EXCEPT !.project = "nonobject"]}

\* three videos
LibSmall == {Good(k) : k \in 1..3}

LibBig == {Good(k) : k \in 1..BigCount}

\* three videos, the third in a directory whose name has nine digits
LibShort == {Good(1), Good(2), [Good(3) EXCEPT !.name = 123456789]}

(***************************************************************************)
(* State                                                                   *)
(***************************************************************************)
VARIABLES
    \* the environment
    disk_cfg,            \* content of config.json
    disk_items,          \* directory entries of the workshop root
    viewport_width,      \* scroll_area.viewport().width()
    window_visible,      \* the main window is shown
    fs_queue,            \* watcher signals emitted and not yet delivered
    \* MainWindow
    columns, tile_edge, current_page,
    id_map, folder_roots, root_unassigned_ids,
    nav_stack, current_subfolders, current_item_ids,
    tiles,               \* _tiles
    last_focus_index,    \* _last_focus_index, -1 for None
    rubber,              \* _rubber_active and _rubber_origin
    sort_index,          \* sort_combo.currentIndex()
    rating_checked,      \* rating_check.isChecked()
    debounce,            \* remaining ms of _debounce, -1 when inactive
    \* Qt's event loop
    doomed,              \* widgets given to deleteLater and not yet deleted
    show_queued,         \* the tiles of the page await their queued show
    after_show_pending,  \* QTimer.singleShot(0, _after_first_show) is due
    modal,               \* nested event loops: open menu, open confirmation
    \* observation
    last_op,             \* the handler that ran last
    playlist,            \* the playlist last handed to the player
    trash_log,           \* the trash calls of the last delete batch
    pre_nav,             \* navigation as it was before the last watcher reload
    quiet,               \* ms the running timer has been left alone, capped
    burst                \* signals delivered since the last watcher reload, capped

envVars == <<disk_cfg, disk_items, fs_queue>>

winVars ==
    <<viewport_width, window_visible,
      columns, tile_edge, current_page, id_map, folder_roots,
      root_unassigned_ids, nav_stack, current_subfolders, current_item_ids,
      tiles, last_focus_index, rubber, sort_index, rating_checked, doomed,
      show_queued>>

loopVars == <<debounce, after_show_pending, modal, quiet, burst>>

obsVars == <<last_op, playlist, trash_log, pre_nav>>

vars == <<envVars, winVars, loopVars, obsVars>>

\* the MainWindow object as one value, so that a handler can call another
Self ==
    [viewport_width |-> viewport_width, window_visible |-> window_visible,
     columns |-> columns, tile_edge |-> tile_edge, current_page |-> current_page,
     id_map |-> id_map, folder_roots |-> folder_roots,
     root_unassigned_ids |-> root_unassigned_ids, nav_stack |-> nav_stack,
     current_subfolders |-> current_subfolders,
     current_item_ids |-> current_item_ids, tiles |-> tiles,
     last_focus_index |-> last_focus_index, rubber |-> rubber,
     sort_index |-> sort_index,
     rating_checked |-> rating_checked, doomed |-> doomed,
     show_queued |-> show_queued]

Set(self) ==
    /\ viewport_width' = self.viewport_width
    /\ window_visible' = self.window_visible
    /\ columns' = self.columns
    /\ tile_edge' = self.tile_edge
    /\ current_page' = self.current_page
    /\ id_map' = self.id_map
    /\ folder_roots' = self.folder_roots
    /\ root_unassigned_ids' = self.root_unassigned_ids
    /\ nav_stack' = self.nav_stack
    /\ current_subfolders' = self.current_subfolders
    /\ current_item_ids' = self.current_item_ids
    /\ tiles' = self.tiles
    /\ last_focus_index' = self.last_focus_index
    /\ rubber' = self.rubber
    /\ sort_index' = self.sort_index
    /\ rating_checked' = self.rating_checked
    /\ doomed' = self.doomed
    /\ show_queued' = self.show_queued

\* depth of the event loop that is running: 1 is QApplication.exec
Level == Len(modal) + 1

Idle == modal = <<>>

Op(name, arg) == [name |-> name, arg |-> arg]

\* the running event loop has no deferred delete of its own left: the model
\* lets at most one handler rebuild the grid between two passes of the loop
\* over its posted events
PostedSettled == \A d \in doomed : d.level < Level

\* main() shows the window before it starts the event loop
Started == last_op.name # "init"

(***************************************************************************)
(* Tiles                                                                   *)
(***************************************************************************)
FolderTile(node) ==
    [kind |-> "folder", title |-> node.title, node |-> node, item |-> NoItem,
     count |-> count_items_recursive(node),
     selected |-> FALSE, visible |-> FALSE,
     movie |-> FALSE, buf |-> FALSE, data |-> FALSE]

VideoTile(item) ==
    [kind |-> "video", title |-> item.title, node |-> NoNode, item |-> item,
     count |-> 0,
     selected |-> FALSE, visible |-> FALSE,
     movie |-> FALSE, buf |-> FALSE, data |-> FALSE]

release_movie(t) == [t EXCEPT !.movie = FALSE, !.buf = FALSE, !.data = FALSE]

\* open(preview_path) succeeds while the file is on disk
PreviewReadable(item, entries) ==
    \E e \in entries :
        /\ e.name = item.preview_path.dir
        /\ e.isdir
        /\ e.preview_file = item.preview_path.file
        /\ e.preview_exists

\* a variant of ensure_movie whose handler leaves the buffer and the data
\* of the failed attempt in place
ensure_movie_no_cleanup(t, entries) ==
    IF t.movie THEN t
    ELSE IF PreviewReadable(t.item, entries)
         THEN [t EXCEPT !.movie = TRUE, !.buf = TRUE, !.data = TRUE]
         ELSE [t EXCEPT !.buf = TRUE, !.data = TRUE]

ensure_movie(t, entries) ==
    IF t.movie THEN t
    ELSE IF PreviewReadable(t.item, entries)
         THEN [t EXCEPT !.movie = TRUE, !.buf = TRUE, !.data = TRUE]
         ELSE release_movie(t)

showEvent(t, entries) ==
    IF t.kind = "video" THEN [ensure_movie(t, entries) EXCEPT !.visible = TRUE]
    ELSE [t EXCEPT !.visible = TRUE]

\* a variant of the hide handlers that keeps the preview
hideEvent_keep(t) == [t EXCEPT !.visible = FALSE]

\* hideEvent, and event() for Hide, HideToParent, Close and Destroy
hideEvent(t) ==
    IF t.kind = "video" THEN [release_movie(t) EXCEPT !.visible = FALSE]
    ELSE [t EXCEPT !.visible = FALSE]

HoldsPreview(t) == t.movie \/ t.buf \/ t.data

(***************************************************************************)
(* refresh_grid and reload_everything                                      *)
(***************************************************************************)
TotalTiles(self) ==
    Len(self.current_subfolders)
        + Len(current_videos_filtered_sorted(self.current_item_ids, self.id_map,
                                             self.rating_checked, self.sort_index))

\* a variant of the slice that begins one position late
page_slice_one_based(cur, total_tiles) ==
    LET start == cur * page_size + 1
    IN [start |-> start, end |-> Min(start + page_size, total_tiles)]

\* start and end of range(start, end), the positions shown on page cur
page_slice(cur, total_tiles) ==
    LET start == cur * page_size
    IN [start |-> start, end |-> Min(start + page_size, total_tiles)]

PageTiles(self) ==
    LET folders == self.current_subfolders
        video_ids_sorted ==
            current_videos_filtered_sorted(self.current_item_ids, self.id_map,
                                           self.rating_checked, self.sort_index)
        total_tiles == Len(folders) + Len(video_ids_sorted)
        start == page_slice(self.current_page, total_tiles).start
        end == page_slice(self.current_page, total_tiles).end
    IN [k \in 1..Max(0, end - start) |->
          LET pos == start + k - 1
          IN IF pos < Len(folders) THEN FolderTile(folders[pos + 1])
             ELSE VideoTile(self.id_map[video_ids_sorted[pos - Len(folders) + 1]])]

\* the old tiles leave the layout through deleteLater: they stay as they are
\* until the event loop that runs now deletes them; the new tiles, added to a
\* visible parent, are shown by a queued call
\* a variant of refresh_grid whose new tiles take over the selection mark of
\* the tile that had their place
refresh_grid_keeps_selection(self) ==
    LET m == compute_grid_metrics(self.viewport_width)
        fresh == PageTiles(self)
    IN [self EXCEPT
          !.columns = m.cols,
          !.tile_edge = m.edge,
          !.doomed = self.doomed
                        \cup {[tile |-> self.tiles[i], level |-> Level,
                               show_pending |-> self.show_queued] :
                                i \in DOMAIN self.tiles},
          !.tiles = [i \in DOMAIN fresh |->
                       [fresh[i] EXCEPT !.selected =
                          i \in DOMAIN self.tiles /\ self.tiles[i].selected]],
          !.show_queued = self.window_visible,
          !.last_focus_index = -1]

refresh_grid(self) ==
    LET m == compute_grid_metrics(self.viewport_width)
    IN [self EXCEPT
          !.columns = m.cols,
          !.tile_edge = m.edge,
          !.doomed = self.doomed
                        \cup {[tile |-> self.tiles[i], level |-> Level,
                               show_pending |-> self.show_queued] :
                                i \in DOMAIN self.tiles},
          !.tiles = PageTiles(self),
          !.show_queued = self.window_visible,
          !.last_focus_index = -1]

\* reload_everything against the disk (cfg, entries): the new object and
\* whether an exception left the function, and from where: 1 for reading the
\* configuration, 2 for the scan
reload_everything(self, cfg, entries) ==
    LET we_cfg == load_we_config(cfg)
        folders_list == extract_folders_list(we_cfg.value)
        roots == build_folder_tree(folders_list.value)
        scan == scan_workshop_items(entries)
        unassigned == collect_unassigned_items(scan.value, roots)
    IN IF we_cfg.raised \/ folders_list.raised
       THEN [raised |-> TRUE, stage |-> 1, self |-> self]
       ELSE IF scan.raised
            THEN [raised |-> TRUE, stage |-> 2,
                  self |-> [self EXCEPT !.folder_roots = roots]]
            ELSE [raised |-> FALSE, stage |-> 0,
                  self |-> refresh_grid(
                      [self EXCEPT !.folder_roots = roots,
                                   !.id_map = scan.value,
                                   !.root_unassigned_ids = unassigned,
                                   !.nav_stack = <<>>,
                                   !.current_subfolders = roots,
                                   !.current_item_ids = unassigned,
                                   !.current_page = 0])]

(***************************************************************************)
(* Navigation                                                              *)
(***************************************************************************)
Frame(node) ==
    [title |-> node.title, subfolders |-> node.subfolders, items |-> node.items]

Titles(stack) == [i \in 1..Len(stack) |-> stack[i].title]

enter_folder(self, node) ==
    refresh_grid([self EXCEPT !.nav_stack = Append(self.nav_stack, Frame(node)),
                              !.current_subfolders = node.subfolders,
                              !.current_item_ids = node.items,
                              !.current_page = 0])

nav_back(self) ==
    IF self.nav_stack = <<>> THEN self
    ELSE LET popped == SubSeq(self.nav_stack, 1, Len(self.nav_stack) - 1)
         IN refresh_grid(
              IF popped = <<>>
              THEN [self EXCEPT !.nav_stack = popped,
                                !.current_subfolders = self.folder_roots,
                                !.current_item_ids = self.root_unassigned_ids,
                                !.current_page = 0]
              ELSE [self EXCEPT !.nav_stack = popped,
                                !.current_subfolders = popped[Len(popped)].subfolders,
                                !.current_item_ids = popped[Len(popped)].items,
                                !.current_page = 0])

\* find_child: the first node of the list with the title
find_child(nodes, title) ==
    LET hits == {i \in DOMAIN nodes : nodes[i].title = title}
    IN IF hits = {} THEN [found |-> FALSE, node |-> NoNode]
       ELSE [found |-> TRUE,
             node |-> nodes[CHOOSE i \in hits : \A j \in hits : i <= j]]

RECURSIVE RestoreWalk(_, _, _)
RestoreWalk(nodes, titles, stack) ==
    IF titles = <<>> THEN stack
    ELSE LET n == find_child(nodes, Head(titles))
         IN IF ~n.found THEN stack
            ELSE RestoreWalk(n.node.subfolders, Tail(titles),
                             Append(stack, Frame(n.node)))

restore_folder_by_titles(self, titles) ==
    LET stack == RestoreWalk(self.folder_roots, titles, <<>>)
    IN IF stack = <<>> THEN self
       ELSE refresh_grid([self EXCEPT
                            !.nav_stack = stack,
                            !.current_subfolders = stack[Len(stack)].subfolders,
                            !.current_item_ids = stack[Len(stack)].items,
                            !.current_page = 0])

do_reload_after_fs_event(self, cfg, entries) ==
    LET crumb == Titles(self.nav_stack)
        r == reload_everything(self, cfg, entries)
    IN IF r.raised THEN r.self
       ELSE IF crumb # <<>> THEN restore_folder_by_titles(r.self, crumb)
       ELSE r.self

(***************************************************************************)
(* Paging                                                                  *)
(***************************************************************************)
next_page(self) ==
    IF (self.current_page + 1) * page_size < TotalTiles(self)
    THEN refresh_grid([self EXCEPT !.current_page = self.current_page + 1])
    ELSE self

previous_page(self) ==
    IF self.current_page > 0
    THEN refresh_grid([self EXCEPT !.current_page = self.current_page - 1])
    ELSE self

\* a variant that takes a number past the last page as the last page
jump_to_page_clamped(self, input) ==
    IF ~input.numeric THEN self
    ELSE IF 1 <= input.p
         THEN refresh_grid([self EXCEPT !.current_page =
                              Min(input.p, total_pages(TotalTiles(self))) - 1])
         ELSE self

\* the page input: text that int() accepts, or not
jump_to_page(self, input) ==
    IF ~input.numeric THEN self
    ELSE IF 1 <= input.p /\ input.p <= total_pages(TotalTiles(self))
         THEN refresh_grid([self EXCEPT !.current_page = input.p - 1])
         ELSE self

resizeEvent(self) ==
    LET m == compute_grid_metrics(self.viewport_width)
    IN IF m.cols # self.columns \/ m.edge # self.tile_edge
       THEN refresh_grid([self EXCEPT !.columns = m.cols, !.tile_edge = m.edge])
       ELSE self

(***************************************************************************)
(* Initial state: MainWindow.__init__ has run, the window is not shown yet *)
(***************************************************************************)
Blank(w) ==
    [viewport_width |-> w, window_visible |-> FALSE,
     columns |-> 1, tile_edge |-> MIN_TILE_EDGE, current_page |-> 0,
     id_map |-> <<>>, folder_roots |-> <<>>, root_unassigned_ids |-> <<>>,
     nav_stack |-> <<>>, current_subfolders |-> <<>>,
     current_item_ids |-> <<>>, tiles |-> <<>>, last_focus_index |-> -1,
     rubber |-> [active |-> FALSE, origin |-> [x |-> 0, y |-> 0]],
     sort_index |-> 0, rating_checked |-> FALSE, doomed |-> {},
     show_queued |-> FALSE]

Is(self) ==
    /\ viewport_width = self.viewport_width
    /\ window_visible = self.window_visible
    /\ columns = self.columns
    /\ tile_edge = self.tile_edge
    /\ current_page = self.current_page
    /\ id_map = self.id_map
    /\ folder_roots = self.folder_roots
    /\ root_unassigned_ids = self.root_unassigned_ids
    /\ nav_stack = self.nav_stack
    /\ current_subfolders = self.current_subfolders
    /\ current_item_ids = self.current_item_ids
    /\ tiles = self.tiles
    /\ last_focus_index = self.last_focus_index
    /\ rubber = self.rubber
    /\ sort_index = self.sort_index
    /\ rating_checked = self.rating_checked
    /\ doomed = self.doomed
    /\ show_queued = self.show_queued

NoSnapshot ==
    [titles |-> <<>>, subfolders |-> <<>>, item_ids |-> <<>>, raised |-> FALSE]

InitWith(cfgs, libs, widths) ==
    /\ disk_cfg \in cfgs
    /\ disk_items \in libs
    /\ fs_queue = 0
    /\ modal = <<>>
    /\ debounce = -1
    /\ after_show_pending = FALSE
    /\ quiet = 0
    /\ burst = 0
    /\ last_op = Op("init", 0)
    /\ playlist = <<>>
    /\ trash_log = <<>>
    /\ pre_nav = NoSnapshot
    /\ \E w \in widths :
        /\ ~reload_everything(Blank(w), disk_cfg, disk_items).raised
        /\ Is(reload_everything(Blank(w), disk_cfg, disk_items).self)

(***************************************************************************)
(* Handlers of the main window                                             *)
(***************************************************************************)
\* the user resizes the window
ResizeEvent(widths) ==
    /\ Started /\ Idle /\ PostedSettled
    /\ \E w \in widths :
        /\ w # viewport_width
        /\ Set(resizeEvent([Self EXCEPT !.viewport_width = w]))
        /\ last_op' = Op("resizeEvent", 0)
    /\ pre_nav' = NoSnapshot
    /\ UNCHANGED <<envVars, loopVars, playlist, trash_log>>

NavBack ==
    /\ Idle /\ window_visible /\ PostedSettled
    /\ Set(nav_back(Self))
    /\ last_op' = Op("nav_back", 0)
    /\ pre_nav' = NoSnapshot
    /\ UNCHANGED <<envVars, loopVars, playlist, trash_log>>

\* the refresh button
RefreshButton ==
    /\ Idle /\ window_visible /\ PostedSettled
    /\ LET r == reload_everything(Self, disk_cfg, disk_items)
       IN /\ Set(r.self)
          /\ last_op' = Op("reload_everything", r.stage)
    /\ pre_nav' = NoSnapshot
    /\ UNCHANGED <<envVars, loopVars, playlist, trash_log>>

\* sort_combo.currentIndexChanged
SortChanged(idxs) ==
    /\ Idle /\ window_visible /\ PostedSettled
    /\ \E i \in idxs :
        /\ i # sort_index
        /\ Set(refresh_grid([Self EXCEPT !.sort_index = i]))
        /\ last_op' = Op("sort_changed", i)
    /\ pre_nav' = NoSnapshot
    /\ UNCHANGED <<envVars, loopVars, playlist, trash_log>>

\* rating_check.stateChanged
RatingToggled ==
    /\ Idle /\ window_visible /\ PostedSettled
    /\ Set(refresh_grid([Self EXCEPT !.rating_checked = ~rating_checked]))
    /\ last_op' = Op("rating_toggled", 0)
    /\ pre_nav' = NoSnapshot
    /\ UNCHANGED <<envVars, loopVars, playlist, trash_log>>

NextPage ==
    /\ Idle /\ window_visible /\ PostedSettled
    /\ Set(next_page(Self))
    /\ last_op' = Op("next_page", 0)
    /\ pre_nav' = NoSnapshot
    /\ UNCHANGED <<envVars, loopVars, playlist, trash_log>>

PreviousPage ==
    /\ Idle /\ window_visible /\ PostedSettled
    /\ Set(previous_page(Self))
    /\ last_op' = Op("previous_page", 0)
    /\ pre_nav' = NoSnapshot
    /\ UNCHANGED <<envVars, loopVars, playlist, trash_log>>

\* return pressed in the page input; -1 stands for text that is no number
JumpToPage(inputs) ==
    /\ Idle /\ window_visible /\ PostedSettled
    /\ \E p \in inputs :
        /\ Set(jump_to_page(Self, [numeric |-> p # -1, p |-> p]))
        /\ last_op' = Op("jump_to_page", p)
    /\ pre_nav' = NoSnapshot
    /\ UNCHANGED <<envVars, loopVars, playlist, trash_log>>

\* a double click on a folder tile of the page
DoubleClickFolder ==
    /\ Idle /\ window_visible /\ PostedSettled
    /\ \E i \in DOMAIN tiles :
        /\ tiles[i].kind = "folder"
        /\ tiles[i].visible
        /\ Set(enter_folder(Self, tiles[i].node))
        /\ last_op' = Op("enter_folder", i)
    /\ pre_nav' = NoSnapshot
    /\ UNCHANGED <<envVars, loopVars, playlist, trash_log>>

(***************************************************************************)
(* Selection                                                               *)
(*                                                                         *)
(* A tile the user can reach with the mouse is named by idx, its position  *)
(* in _tiles counted from 1, or, when it has left _tiles through           *)
(* deleteLater and is still on screen, by idx = 0 and its entry d of       *)
(* doomed.  last_focus_index counts from 1 as well, -1 is None.            *)
(***************************************************************************)
NoZombie == [tile |-> VideoTile(NoItem), level |-> 0, show_pending |-> FALSE]

PageRef(i) == [idx |-> i, d |-> NoZombie]

ZombieRef(d) == [idx |-> 0, d |-> d]

TileOf(self, ref) == IF ref.idx # 0 THEN self.tiles[ref.idx] ELSE ref.d.tile

setSelected(self, ref, val) ==
    IF ref.idx # 0
    THEN [self EXCEPT !.tiles[ref.idx].selected = val]
    ELSE [self EXCEPT !.doomed = (self.doomed \ {ref.d})
                                    \cup {[ref.d EXCEPT !.tile.selected = val]}]

\* a variant of clear_selection that leaves the flags as they are
clear_selection_none(self) == self

clear_selection(self) ==
    [self EXCEPT !.tiles = [i \in DOMAIN self.tiles |->
                              [self.tiles[i] EXCEPT !.selected = FALSE]]]

selected_tiles(self) ==
    LET isSelected(t) == t.selected
    IN SelectSeq(self.tiles, isSelected)

\* a variant of the shift run that leaves out its upper end
ShiftRun_open(idx, focus) == Min(idx, focus)..(Max(idx, focus) - 1)

\* a, b = sorted([idx, _last_focus_index]); range(a, b + 1)
ShiftRun(idx, focus) == Min(idx, focus)..Max(idx, focus)

\* a variant whose Ctrl branch clears the selection before it toggles
on_tile_clicked_ctrl_exclusive(self, ref, mods) ==
    LET idx == ref.idx
        done ==
            IF mods.shift /\ self.last_focus_index # -1 /\ idx # 0
            THEN [self EXCEPT !.tiles =
                    [i \in DOMAIN self.tiles |->
                       IF i \in ShiftRun(idx, self.last_focus_index)
                       THEN [self.tiles[i] EXCEPT !.selected = TRUE]
                       ELSE self.tiles[i]]]
            ELSE IF mods.ctrl
                 THEN setSelected(clear_selection(self), ref,
                                  ~TileOf(self, ref).selected)
                 ELSE setSelected(clear_selection(self), ref, TRUE)
    IN IF idx # 0 THEN [done EXCEPT !.last_focus_index = idx] ELSE done

\* a variant of on_tile_clicked that records the tile only on a plain click
on_tile_clicked_plain_focus(self, ref, mods) ==
    LET idx == ref.idx
        done ==
            IF mods.shift /\ self.last_focus_index # -1 /\ idx # 0
            THEN [self EXCEPT !.tiles =
                    [i \in DOMAIN self.tiles |->
                       IF i \in ShiftRun(idx, self.last_focus_index)
                       THEN [self.tiles[i] EXCEPT !.selected = TRUE]
                       ELSE self.tiles[i]]]
            ELSE IF mods.ctrl
                 THEN setSelected(self, ref, ~TileOf(self, ref).selected)
                 ELSE setSelected(clear_selection(self), ref, TRUE)
    IN IF idx # 0 /\ ~mods.shift /\ ~mods.ctrl
       THEN [done EXCEPT !.last_focus_index = idx] ELSE done

\* keyboardModifiers() at the click: mods.shift, mods.ctrl
on_tile_clicked(self, ref, mods) ==
    LET idx == ref.idx
        done ==
            IF mods.shift /\ self.last_focus_index # -1 /\ idx # 0
            THEN [self EXCEPT !.tiles =
                    [i \in DOMAIN self.tiles |->
                       IF i \in ShiftRun(idx, self.last_focus_index)
                       THEN [self.tiles[i] EXCEPT !.selected = TRUE]
                       ELSE self.tiles[i]]]
            ELSE IF mods.ctrl
                 THEN setSelected(self, ref, ~TileOf(self, ref).selected)
                 ELSE setSelected(clear_selection(self), ref, TRUE)
    IN IF idx # 0 THEN [done EXCEPT !.last_focus_index = idx] ELSE done

\* keyPressEvent: Ctrl+A
keyPressEvent(self) ==
    [self EXCEPT !.tiles = [i \in DOMAIN self.tiles |->
                              [self.tiles[i] EXCEPT !.selected = TRUE]]]

NoMods == [shift |-> FALSE, ctrl |-> FALSE]

\* the tiles on screen: those of the page and those awaiting their delete
TileRefs ==
    {PageRef(i) : i \in {j \in DOMAIN tiles : tiles[j].visible}}
        \cup {ZombieRef(d) : d \in {x \in doomed : x.tile.visible}}

PageRefs == {r \in TileRefs : r.idx # 0}

\* the index of the plain click on a tile of the page that ran last, or 0
PlainClickBefore ==
    IF last_op.name = "on_tile_clicked"
    THEN IF ~last_op.arg.shift /\ ~last_op.arg.ctrl THEN last_op.arg.idx ELSE 0
    ELSE 0

\* a left click on a tile
TileClicked(refs, modset) ==
    /\ Idle /\ window_visible
    /\ \E ref \in refs, mods \in modset :
        /\ Set(on_tile_clicked(Self, ref, mods))
        /\ last_op' = Op("on_tile_clicked",
                         [idx |-> ref.idx, shift |-> mods.shift,
                          ctrl |-> mods.ctrl, after |-> PlainClickBefore,
                          nsel |-> Len(selected_tiles(Self))])
    /\ pre_nav' = NoSnapshot
    /\ UNCHANGED <<envVars, loopVars, playlist, trash_log>>

KeyCtrlA ==
    /\ Idle /\ window_visible
    /\ Set(keyPressEvent(Self))
    /\ last_op' = Op("keyPressEvent", 0)
    /\ pre_nav' = NoSnapshot
    /\ UNCHANGED <<envVars, loopVars, playlist, trash_log>>

(***************************************************************************)
(* Rubber band selection on the background of the grid                     *)
(***************************************************************************)
\* QRect(origin, pos).normalized(): both corners belong to the rectangle; a
\* side whose second corner lies before the first is turned round and loses
\* both corner lines
rubber_rect(origin, pos) ==
    [x1 |-> IF pos.x < origin.x THEN pos.x + 1 ELSE origin.x,
     x2 |-> IF pos.x < origin.x THEN origin.x - 1 ELSE pos.x,
     y1 |-> IF pos.y < origin.y THEN pos.y + 1 ELSE origin.y,
     y2 |-> IF pos.y < origin.y THEN origin.y - 1 ELSE pos.y]

\* QRect.intersects
intersects(a, b) ==
    LET isNull(r) == r.x2 = r.x1 - 1 /\ r.y2 = r.y1 - 1
        lo(u, v) == IF v - u + 1 < 0 THEN v ELSE u
        hi(u, v) == IF v - u + 1 < 0 THEN u ELSE v
    IN /\ ~isNull(a) /\ ~isNull(b)
       /\ lo(a.x1, a.x2) <= hi(b.x1, b.x2)
       /\ lo(b.x1, b.x2) <= hi(a.x1, a.x2)
       /\ lo(a.y1, a.y2) <= hi(b.y1, b.y2)
       /\ lo(b.y1, b.y2) <= hi(a.y1, a.y2)

\* t.geometry(): once the layout has placed the tile, the cell refresh_grid
\* gave it in a layout of spacing and margins MIN_SPACING; before, the fixed
\* size at the parent's origin
tile_geometry(self, i, laid) ==
    LET col == (i - 1) % self.columns
        row == (i - 1) \div self.columns
        x == IF laid THEN MIN_SPACING + col * (self.tile_edge + MIN_SPACING) ELSE 0
        y == IF laid THEN MIN_SPACING + row * (self.tile_edge + MIN_SPACING) ELSE 0
    IN [x1 |-> x, y1 |-> y,
        x2 |-> x + self.tile_edge - 1, y2 |-> y + self.tile_edge - 1]

\* eventFilter, MouseButtonPress with the left button on content_widget
eventFilter_press(self, pt, mods) ==
    [(IF mods.ctrl \/ mods.shift THEN self ELSE clear_selection(self))
        EXCEPT !.rubber = [active |-> TRUE, origin |-> pt]]

\* a variant of the move that deselects nothing
eventFilter_move_additive(self, pos, ctrl, laid) ==
    IF ~self.rubber.active THEN self
    ELSE LET rect == rubber_rect(self.rubber.origin, pos)
         IN [self EXCEPT !.tiles = [i \in DOMAIN self.tiles |->
                IF intersects(tile_geometry(self, i, laid), rect)
                THEN [self.tiles[i] EXCEPT !.selected = TRUE]
                ELSE self.tiles[i]]]

\* eventFilter, MouseMove on content_widget
eventFilter_move(self, pos, ctrl, laid) ==
    IF ~self.rubber.active THEN self
    ELSE LET rect == rubber_rect(self.rubber.origin, pos)
         IN [self EXCEPT !.tiles = [i \in DOMAIN self.tiles |->
                IF intersects(tile_geometry(self, i, laid), rect)
                THEN [self.tiles[i] EXCEPT !.selected = TRUE]
                ELSE IF ~ctrl
                     THEN [self.tiles[i] EXCEPT !.selected = FALSE]
                     ELSE self.tiles[i]]]

\* eventFilter, MouseButtonRelease on content_widget
eventFilter_release(self) ==
    IF self.rubber.active THEN [self EXCEPT !.rubber.active = FALSE] ELSE self

\* positions of the pointer: in the margin, on tiles, in the free last cell
DragPoints == {[x |-> px, y |-> py] : px \in {4, 300}, py \in {4, 100, 500}}

\* a tile takes the press that falls on it; the content widget gets the rest
OnBackground(pt) ==
    \A i \in DOMAIN tiles :
        LET g == tile_geometry(Self, i, TRUE)
        IN ~(g.x1 <= pt.x /\ pt.x <= g.x2 /\ g.y1 <= pt.y /\ pt.y <= g.y2)

MousePress(points, modset) ==
    /\ Idle /\ window_visible /\ ~rubber.active
    /\ \E pt \in {p \in points : OnBackground(p)}, mods \in modset :
        Set(eventFilter_press(Self, pt, mods))
    /\ last_op' = Op("rubber_press", 0)
    /\ pre_nav' = NoSnapshot
    /\ UNCHANGED <<envVars, loopVars, playlist, trash_log>>

\* the pointer moves with the button held; the tiles of a rebuild that the
\* layout has not placed yet may or may not have their cell
MouseMove(points) ==
    /\ Idle /\ window_visible /\ rubber.active
    /\ \E pos \in points, ctrl \in BOOLEAN,
          laid \in (IF show_queued THEN BOOLEAN ELSE {TRUE}) :
        /\ Set(eventFilter_move(Self, pos, ctrl, laid))
        /\ last_op' = Op("rubber_move",
                         [rect |-> rubber_rect(rubber.origin, pos),
                          ctrl |-> ctrl, laid |-> laid])
    /\ pre_nav' = NoSnapshot
    /\ UNCHANGED <<envVars, loopVars, playlist, trash_log>>

MouseRelease ==
    /\ Idle /\ window_visible /\ rubber.active
    /\ Set(eventFilter_release(Self))
    /\ last_op' = Op("rubber_release", 0)
    /\ pre_nav' = NoSnapshot
    /\ UNCHANGED <<envVars, loopVars, playlist, trash_log>>

(***************************************************************************)
(* Playback                                                                *)
(***************************************************************************)
RECURSIVE gather_folder_items(_, _)
gather_folder_items(self, node) ==
    LET Keep(iid) ==
            /\ iid \in DOMAIN self.id_map
            /\ (~self.rating_checked \/ self.id_map[iid].rating = "Mature")
        own == SelectSeq(node.items, Keep)
    IN [i \in 1..Len(own) |-> self.id_map[own[i]]]
         \o FlattenSeq([i \in 1..Len(node.subfolders) |->
                          gather_folder_items(self, node.subfolders[i])])

\* _play_as_playlist: the lines written to the playlist file, in order; no
\* file is written for an empty list
play_as_playlist(videos) == [i \in 1..Len(videos) |-> videos[i].video_path]

play_folders(self, folders) ==
    play_as_playlist(
        FlattenSeq([i \in 1..Len(folders) |-> gather_folder_items(self, folders[i])]))

play_mixed(self, videos, folders) ==
    LET all_videos ==
            videos \o FlattenSeq([i \in 1..Len(folders) |->
                                    gather_folder_items(self, folders[i])])
        uniq[i \in 0..Len(all_videos)] ==
            IF i = 0 THEN <<>>
            ELSE IF \E k \in 1..Len(uniq[i-1]) :
                        uniq[i-1][k].video_path = all_videos[i].video_path
                 THEN uniq[i-1]
                 ELSE Append(uniq[i-1], all_videos[i])
    IN play_as_playlist(uniq[Len(all_videos)])

(***************************************************************************)
(* Delete                                                                  *)
(***************************************************************************)
\* _find_10digit_id_dir of a path root/dir/file: os.path.samefile raises for
\* a path that is not on disk
find_10digit_id_dir(path, entries) ==
    IF ~\E e \in entries :
            /\ e.name = path.dir /\ e.isdir
            /\ e.video_file = path.file /\ e.video_exists
    THEN [raised |-> TRUE, found |-> FALSE, dir |-> 0]
    ELSE IF Len(DigitStr(path.dir)) = 10
         THEN [raised |-> FALSE, found |-> TRUE, dir |-> path.dir]
         ELSE [raised |-> FALSE, found |-> FALSE, dir |-> 0]

\* the head of delete_workshop_items: sorted(set(id_dirs))
uniq_dirs(items, entries) ==
    LET r == [i \in 1..Len(items) |-> find_10digit_id_dir(items[i].video_path, entries)]
    IN [raised |-> \E i \in DOMAIN r : r[i].raised,
        value |-> SortedIds({r[i].dir : i \in {j \in DOMAIN r : r[j].found}})]

\* a variant of the trash loop without the try around each call: the first
\* refusal ends the loop
trash_attempts_until_failure(dirs, failed) ==
    LET bad == {k \in DOMAIN dirs : dirs[k] \in failed}
    IN IF bad = {} THEN dirs
       ELSE SubSeq(dirs, 1, CHOOSE k \in bad : \A j \in bad : k <= j)

\* the trash loop: the directories _send_to_recycle_bin is called on, in
\* order; failed are those the recycle bin refuses
trash_attempts(dirs, failed) == dirs

\* "release the previews of the current page"
release_current_page(self) ==
    [self EXCEPT !.tiles = [i \in DOMAIN self.tiles |->
                              IF self.tiles[i].kind = "video"
                              THEN release_movie(self.tiles[i])
                              ELSE self.tiles[i]]]

\* the items whose preview some tile holds, in _tiles or awaiting its delete
LivePreviews(self) ==
    {t.item.id : t \in {x \in Range(self.tiles) \cup {d.tile : d \in self.doomed} :
                          HoldsPreview(x)}}

(***************************************************************************)
(* The context menu                                                        *)
(***************************************************************************)
find_node_by_title_in_current(self, title) ==
    find_child(self.current_subfolders, title)

\* on_tile_context up to menu.exec: the selection it leaves and the actions
\* of the menu with the values their lambdas capture
on_tile_context(self, ref, entries) ==
    LET keep == ref.idx # 0 /\ self.tiles[ref.idx].selected
        s1 == IF keep THEN self ELSE setSelected(clear_selection(self), ref, TRUE)
        tile == IF ref.idx # 0 THEN s1.tiles[ref.idx]
                ELSE [ref.d.tile EXCEPT !.selected = TRUE]
        sel == IF keep THEN selected_tiles(s1) ELSE <<tile>>
        isVideo(t) == t.kind = "video"
        isFolder(t) == t.kind = "folder"
        vts == SelectSeq(sel, isVideo)
        fts == SelectSeq(sel, isFolder)
        video_items == [i \in 1..Len(vts) |-> vts[i].item]
        looked == [i \in 1..Len(fts) |-> find_node_by_title_in_current(s1, fts[i].title)]
        wasFound(r) == r.found
        hits == SelectSeq(looked, wasFound)
        folder_nodes == [i \in 1..Len(hits) |-> hits[i].node]
        node == find_node_by_title_in_current(s1, tile.title)
        counts[i \in 0..Len(folder_nodes)] ==
            IF i = 0 THEN 0 ELSE counts[i-1] + count_items_recursive(folder_nodes[i])
    IN [self |-> s1,
        raised |-> /\ Len(video_items) >= 2
                   /\ \E i \in DOMAIN video_items :
                        find_10digit_id_dir(video_items[i].video_path, entries).raised,
        menu |-> [kind |-> "menu",
                  single_video |-> isVideo(tile) /\ Len(video_items) = 1 /\ Len(sel) = 1,
                  item |-> tile.item,
                  multi |-> Len(video_items) >= 2,
                  video_items |-> video_items,
                  folder_single |-> isFolder(tile) /\ Len(sel) = 1 /\ node.found,
                  node |-> node.node,
                  batch |-> Len(video_items) + counts[Len(folder_nodes)] > 0,
                  folder_nodes |-> folder_nodes]]

Top == modal[Len(modal)]

MenuOpen == modal # <<>> /\ Top.kind = "menu"

\* a right click on a tile: the menu opens and runs its own event loop
ContextMenu(refs) ==
    /\ Idle /\ window_visible
    /\ \E ref \in refs :
        LET r == on_tile_context(Self, ref, disk_items)
        IN /\ Set(r.self)
           /\ modal' = IF r.raised THEN modal ELSE <<r.menu>>
           /\ last_op' = Op("on_tile_context", ref.idx)
    /\ pre_nav' = NoSnapshot
    /\ UNCHANGED <<envVars, debounce, after_show_pending, quiet, burst,
                   playlist, trash_log>>

\* the menu is dismissed, or an action is chosen that only starts an
\* external program (play this video, open the folder, open the web page)
MenuDismiss ==
    /\ MenuOpen
    /\ modal' = <<>>
    /\ last_op' = Op("menu_closed", 0)
    /\ pre_nav' = NoSnapshot
    /\ UNCHANGED <<envVars, winVars, debounce, after_show_pending, quiet, burst,
                   playlist, trash_log>>

\* "open this folder"
MenuEnterFolder ==
    /\ MenuOpen /\ Top.folder_single
    /\ Set(enter_folder(Self, Top.node))
    /\ modal' = <<>>
    /\ last_op' = Op("enter_folder", 0)
    /\ pre_nav' = NoSnapshot
    /\ UNCHANGED <<envVars, debounce, after_show_pending, quiet, burst,
                   playlist, trash_log>>

\* "play this folder"
MenuPlayFolder ==
    /\ MenuOpen /\ Top.folder_single
    /\ playlist' = play_folders(Self, <<Top.node>>)
    /\ modal' = <<>>
    /\ last_op' = Op("play_folders", 0)
    /\ pre_nav' = NoSnapshot
    /\ UNCHANGED <<envVars, winVars, debounce, after_show_pending, quiet, burst,
                   trash_log>>

\* "batch play"
MenuPlayMixed ==
    /\ MenuOpen /\ Top.batch
    /\ playlist' = play_mixed(Self, Top.video_items, Top.folder_nodes)
    /\ modal' = <<>>
    /\ last_op' = Op("play_mixed", 0)
    /\ pre_nav' = NoSnapshot
    /\ UNCHANGED <<envVars, winVars, debounce, after_show_pending, quiet, burst,
                   trash_log>>

\* "delete", of the one video or of the selected videos: up to the
\* confirmation, which runs its own event loop inside the menu's
MenuDelete ==
    /\ MenuOpen /\ (Top.single_video \/ Top.multi)
    /\ LET items == IF Top.single_video THEN <<Top.item>> ELSE Top.video_items
           dirs == uniq_dirs(items, disk_items)
       IN modal' = IF dirs.raised \/ dirs.value = <<>> THEN <<>>
                   ELSE Append(modal, [kind |-> "confirm", dirs |-> dirs.value])
    /\ last_op' = Op("delete_workshop_items", 0)
    /\ pre_nav' = NoSnapshot
    /\ UNCHANGED <<envVars, winVars, debounce, after_show_pending, quiet, burst,
                   playlist, trash_log>>

ConfirmOpen == modal # <<>> /\ Top.kind = "confirm"

ConfirmNo ==
    /\ ConfirmOpen
    /\ modal' = <<>>
    /\ last_op' = Op("delete_declined", 0)
    /\ pre_nav' = NoSnapshot
    /\ UNCHANGED <<envVars, winVars, debounce, after_show_pending, quiet, burst,
                   playlist, trash_log>>

\* Yes: the previews of _tiles are released and every directory is sent to
\* the recycle bin, which may refuse any of them; the report that follows
\* runs its own event loop
ConfirmYes ==
    /\ ConfirmOpen
    /\ \E failed \in SUBSET Range(Top.dirs) :
        LET released == release_current_page(Self)
            tried == trash_attempts(Top.dirs, failed)
            gone == Range(tried) \ failed
        IN /\ Set(released)
           /\ trash_log' = [k \in DOMAIN tried |->
                              [dir |-> tried[k],
                               ok |-> tried[k] \notin failed,
                               live |-> LivePreviews(released)]]
           /\ disk_items' = {e \in disk_items : e.name \notin gone}
           /\ fs_queue' = IF gone = {} THEN fs_queue
                          ELSE Min(fs_queue + 1, MaxQueue)
           /\ modal' = Append(SubSeq(modal, 1, Len(modal) - 1),
                              [kind |-> "notice",
                               dirs |-> Top.dirs,
                               failed |-> Range(tried) \cap failed])
    /\ last_op' = Op("send_to_recycle_bin", 0)
    /\ pre_nav' = NoSnapshot
    /\ UNCHANGED <<disk_cfg, debounce, after_show_pending, quiet, burst, playlist>>

NoticeOpen == modal # <<>> /\ Top.kind = "notice"

\* the report is closed: reload_everything, whose exception the handler
\* catches; the menu's exec returns
NoticeClosed ==
    /\ NoticeOpen
    /\ LET r == reload_everything(Self, disk_cfg, disk_items)
       IN /\ Set(r.self)
          /\ last_op' = Op("reload_after_delete", r.stage)
    /\ modal' = <<>>
    /\ trash_log' = <<>>
    /\ pre_nav' = NoSnapshot
    /\ UNCHANGED <<envVars, debounce, after_show_pending, quiet, burst, playlist>>

(***************************************************************************)
(* The window is shown and hidden; posted events                           *)
(***************************************************************************)
ShowAll(ts, entries) == [i \in DOMAIN ts |-> showEvent(ts[i], entries)]

HideAll(ts) == [i \in DOMAIN ts |-> hideEvent(ts[i])]

\* MainWindow.showEvent: the children are shown with the window
ShowWindow ==
    /\ Idle /\ ~window_visible
    /\ Set([Self EXCEPT
              !.window_visible = TRUE,
              !.tiles = ShowAll(tiles, disk_items),
              !.doomed = {[d EXCEPT !.tile = showEvent(d.tile, disk_items),
                                    !.show_pending = FALSE] : d \in doomed},
              !.show_queued = FALSE])
    /\ after_show_pending' = TRUE
    /\ last_op' = Op("showEvent", 0)
    /\ UNCHANGED <<envVars, debounce, modal, quiet, burst>>
    /\ pre_nav' = NoSnapshot
    /\ UNCHANGED <<playlist, trash_log>>

\* the window is hidden or minimized: every child gets its hide event
HideWindow ==
    /\ Idle /\ window_visible
    /\ Set([Self EXCEPT
              !.window_visible = FALSE,
              !.tiles = HideAll(tiles),
              !.doomed = {[d EXCEPT !.tile = hideEvent(d.tile),
                                    !.show_pending = FALSE] : d \in doomed},
              !.show_queued = FALSE])
    /\ last_op' = Op("hideEvent",
                     Cardinality({i \in DOMAIN tiles : HoldsPreview(tiles[i])}))
    /\ pre_nav' = NoSnapshot
    /\ UNCHANGED <<envVars, loopVars, playlist, trash_log>>

\* _after_first_show, from QTimer.singleShot(0, ...)
AfterFirstShow ==
    /\ Started /\ after_show_pending /\ PostedSettled
    /\ after_show_pending' = FALSE
    /\ Set(resizeEvent(Self))
    /\ last_op' = Op("after_first_show", 0)
    /\ UNCHANGED <<envVars, debounce, modal, quiet, burst>>
    /\ pre_nav' = NoSnapshot
    /\ UNCHANGED <<playlist, trash_log>>

\* one pass of the running event loop over the posted events: a deferred
\* delete is performed by the loop it was posted from, or an outer one; a
\* widget that is deleted drops its movie, buffer and data with it
ProcessPosted ==
    /\ Started
    /\ \/ {d \in doomed : d.level >= Level \/ d.show_pending} # {}
       \/ show_queued
    /\ Set([Self EXCEPT
              !.doomed =
                  {[d EXCEPT !.tile = IF d.show_pending /\ window_visible
                                      THEN showEvent(d.tile, disk_items)
                                      ELSE d.tile,
                             !.show_pending = FALSE] :
                     d \in {x \in doomed : x.level < Level}},
              !.tiles = IF show_queued /\ window_visible
                        THEN ShowAll(tiles, disk_items) ELSE tiles,
              !.show_queued = FALSE])
    /\ last_op' = Op("posted_events", 0)
    /\ pre_nav' = NoSnapshot
    /\ UNCHANGED <<envVars, loopVars, playlist, trash_log>>

(***************************************************************************)
(* The file system watcher and the debounce timer                          *)
(***************************************************************************)
\* config.json is rewritten: the watcher emits fileChanged
ConfigChanged(cfgs) ==
    /\ Started /\ fs_queue < MaxQueue
    /\ \E c \in cfgs :
        /\ c # disk_cfg
        /\ disk_cfg' = c
    /\ fs_queue' = fs_queue + 1
    /\ UNCHANGED <<disk_items, winVars, loopVars, obsVars>>

\* the workshop directory changes: the watcher emits directoryChanged
WorkshopChanged(libs) ==
    /\ Started /\ fs_queue < MaxQueue
    /\ \E l \in libs :
        /\ l # disk_items
        /\ disk_items' = l
    /\ fs_queue' = fs_queue + 1
    /\ UNCHANGED <<disk_cfg, winVars, loopVars, obsVars>>

\* a variant of start() that leaves a running timer alone
start_if_inactive(timer) == IF timer >= 0 THEN timer ELSE DebounceInterval

\* QTimer.start(): the timer runs its whole interval again, running or not
start(timer) == DebounceInterval

\* _on_fs_event: a watcher signal is delivered
OnFsEvent ==
    /\ Started /\ fs_queue > 0
    /\ fs_queue' = fs_queue - 1
    /\ debounce' = start(debounce)
    /\ quiet' = 0
    /\ burst' = Min(burst + 1, 2)
    /\ last_op' = Op("on_fs_event", 0)
    /\ UNCHANGED <<disk_cfg, disk_items, winVars, after_show_pending, modal>>
    /\ pre_nav' = NoSnapshot
    /\ UNCHANGED <<playlist, trash_log>>

\* time passes
Tick(ms) ==
    /\ Started /\ debounce > 0
    /\ debounce' = Max(0, debounce - ms)
    /\ quiet' = Min(quiet + ms, DebounceInterval)
    /\ UNCHANGED <<envVars, winVars, after_show_pending, modal, burst, obsVars>>

\* the single-shot timer fires: _do_reload_after_fs_event
DebounceTimeout ==
    /\ Started /\ debounce = 0 /\ PostedSettled
    /\ quiet' = 0
    /\ debounce' = -1
    /\ burst' = 0
    /\ Set(do_reload_after_fs_event(Self, disk_cfg, disk_items))
    /\ pre_nav' = [titles |-> Titles(nav_stack),
                   subfolders |-> current_subfolders,
                   item_ids |-> current_item_ids,
                   raised |-> reload_everything(Self, disk_cfg, disk_items).raised]
    /\ last_op' = Op("do_reload_after_fs_event", [quiet |-> quiet, burst |-> burst])
    /\ UNCHANGED <<envVars, after_show_pending, modal>>
    /\ UNCHANGED <<playlist, trash_log>>

(***************************************************************************)
(* The grid metrics on their own: every viewport width                     *)
(***************************************************************************)
InitMetrics == InitWith({CfgA}, {LibA}, 0..MaxWidth)

\* the window edge is dragged a pixel, or jumps by one column
NextMetrics ==
    \/ ShowWindow
    \/ ProcessPosted
    \/ AfterFirstShow
    \/ ResizeEvent({viewport_width - 1, viewport_width + 1,
                    viewport_width + MIN_TILE_EDGE + MIN_SPACING} \cap (0..MaxWidth))

SpecMetrics == InitMetrics /\ [][NextMetrics]_vars

(***************************************************************************)
(* Navigation, reload and the watcher on the small libraries               *)
(***************************************************************************)
NavCfgs == {CfgA, CfgNoY, CfgUnreadable}

NavLibs == {LibA, LibB, LibBroken}

InitNav == InitWith(NavCfgs, NavLibs, {400})

NextNav ==
    \/ ShowWindow
    \/ ProcessPosted
    \/ AfterFirstShow
    \/ NavBack
    \/ DoubleClickFolder
    \/ RefreshButton
    \/ ConfigChanged(NavCfgs)
    \/ WorkshopChanged(NavLibs)
    \/ OnFsEvent
    \/ Tick(DebounceInterval)
    \/ DebounceTimeout

SpecNav == InitNav /\ [][NextNav]_vars

(***************************************************************************)
(* Paging over a library of more than one page                             *)
(***************************************************************************)
InitPaging == InitWith({CfgBig}, {LibBig}, {400})

NextPaging ==
    \/ ShowWindow
    \/ ProcessPosted
    \/ AfterFirstShow
    \/ NextPage
    \/ PreviousPage
    \/ JumpToPage(-1..3)
    \/ SortChanged({0, 1, 3})
    \/ RatingToggled
    \/ DoubleClickFolder
    \/ NavBack
    \/ ResizeEvent({400, 600})
    \/ RefreshButton

SpecPaging == InitPaging /\ [][NextPaging]_vars

\* page jumps with a selection on the page
NextJump ==
    \/ ShowWindow
    \/ ProcessPosted
    \/ AfterFirstShow
    \/ KeyCtrlA
    \/ TileClicked(PageRefs \cap {PageRef(1), PageRef(2)}, {NoMods})
    \/ NextPage
    \/ PreviousPage
    \/ JumpToPage(-1..3)
    \/ DoubleClickFolder
    \/ NavBack

SpecJump == InitPaging /\ [][NextJump]_vars

(***************************************************************************)
(* Selection on a page of five tiles                                       *)
(***************************************************************************)
AllMods == {[shift |-> sh, ctrl |-> c] : sh \in BOOLEAN, c \in BOOLEAN}

InitSel == InitWith({CfgFive}, {LibA}, {400})

NextSel ==
    \/ ShowWindow
    \/ ProcessPosted
    \/ AfterFirstShow
    \/ TileClicked(TileRefs, AllMods)
    \/ KeyCtrlA
    \/ RatingToggled

SpecSel == InitSel /\ [][NextSel]_vars

\* the rubber band on the same page
NextRubber ==
    \/ ShowWindow
    \/ ProcessPosted
    \/ AfterFirstShow
    \/ RatingToggled
    \/ MousePress(DragPoints, {NoMods, [shift |-> FALSE, ctrl |-> TRUE]})
    \/ MouseMove(DragPoints)
    \/ MouseRelease

SpecRubber == InitSel /\ [][NextRubber]_vars

\* clicks, Ctrl+A, the rubber band and a rebuild on the same page
NextFocus ==
    \/ ShowWindow
    \/ ProcessPosted
    \/ AfterFirstShow
    \/ RatingToggled
    \/ TileClicked(TileRefs, {NoMods, [shift |-> TRUE, ctrl |-> FALSE]})
    \/ KeyCtrlA
    \/ MousePress(DragPoints, {NoMods})
    \/ MouseMove(DragPoints)
    \/ MouseRelease

SpecFocus == InitSel /\ [][NextFocus]_vars

(***************************************************************************)
(* The tiles' previews: rebuilds, hiding, and the delete from the menu     *)
(***************************************************************************)
InitTiles == InitWith({CfgBig}, {LibSmall}, {400})

NextTiles ==
    \/ ShowWindow
    \/ HideWindow
    \/ ProcessPosted
    \/ AfterFirstShow
    \/ RatingToggled
    \/ ContextMenu(TileRefs)
    \/ MenuDismiss
    \/ MenuDelete
    \/ ConfirmNo
    \/ ConfirmYes
    \/ NoticeClosed

SpecTiles == InitTiles /\ [][NextTiles]_vars

(***************************************************************************)
(* Deleting a selection of several items                                   *)
(***************************************************************************)
NextDelete ==
    \/ ShowWindow
    \/ ProcessPosted
    \/ AfterFirstShow
    \/ KeyCtrlA
    \/ ContextMenu(PageRefs)
    \/ MenuDismiss
    \/ MenuDelete
    \/ ConfirmNo
    \/ ConfirmYes
    \/ NoticeClosed
    \/ OnFsEvent
    \/ Tick(DebounceInterval)
    \/ DebounceTimeout

InitDelete == InitWith({CfgBig}, {LibSmall, LibShort}, {400})

SpecDelete == InitDelete /\ [][NextDelete]_vars

(***************************************************************************)
(* Playback from the context menu                                          *)
(***************************************************************************)
InitPlay == InitWith({CfgA, CfgDup}, {LibA}, {400})

NextPlay ==
    \/ ShowWindow
    \/ ProcessPosted
    \/ AfterFirstShow
    \/ TileClicked(PageRefs, {NoMods, [shift |-> FALSE, ctrl |-> TRUE]})
    \/ ContextMenu(PageRefs)
    \/ MenuDismiss
    \/ MenuEnterFolder
    \/ MenuPlayFolder
    \/ MenuPlayMixed
    \/ NavBack
    \/ RatingToggled

SpecPlay == InitPlay /\ [][NextPlay]_vars

(***************************************************************************)
(* The watcher reload inside a tree with two root folders of one title     *)
(***************************************************************************)
RestoreLibs == {LibA, LibB}

InitRestore == InitWith({CfgDup}, RestoreLibs, {400})

NextRestore ==
    \/ ShowWindow
    \/ ProcessPosted
    \/ AfterFirstShow
    \/ DoubleClickFolder
    \/ NavBack
    \/ WorkshopChanged(RestoreLibs)
    \/ OnFsEvent
    \/ Tick(DebounceInterval)
    \/ DebounceTimeout

SpecRestore == InitRestore /\ [][NextRestore]_vars

(***************************************************************************)
(* The debounce timer against the clock                                    *)
(***************************************************************************)
WatchCfgs == {CfgA, CfgNoY}

WatchLibs == {LibA, LibB}

InitWatch == InitWith({CfgA}, {LibA}, {400})

NextWatch ==
    \/ ShowWindow
    \/ ProcessPosted
    \/ AfterFirstShow
    \/ DoubleClickFolder
    \/ ConfigChanged(WatchCfgs)
    \/ WorkshopChanged(WatchLibs)
    \/ OnFsEvent
    \/ Tick(TickMs)
    \/ DebounceTimeout

\* the timer is due and the loop is free to run its slot
TimerDue == Started /\ debounce = 0 /\ PostedSettled

\* time passes, the loop gets to its posted events, and a timer that stays
\* due fires: the weak fairness of DebounceTimeout, written with the
\* condition that enables it
SpecWatch ==
    /\ InitWatch
    /\ [][NextWatch]_vars
    /\ WF_vars(Tick(TickMs))
    /\ WF_vars(ProcessPosted)
    /\ ([]<>~TimerDue \/ []<><<DebounceTimeout>>_vars)

(***************************************************************************)
(* A context menu that stays open while the watcher reloads                *)
(***************************************************************************)
NextStale ==
    \/ ShowWindow
    \/ ProcessPosted
    \/ AfterFirstShow
    \/ ContextMenu(PageRefs \cap {PageRef(1), PageRef(2)})
    \/ MenuDismiss
    \/ MenuEnterFolder
    \/ MenuPlayMixed
    \/ ConfigChanged(WatchCfgs)
    \/ WorkshopChanged(WatchLibs)
    \/ OnFsEvent
    \/ Tick(DebounceInterval)
    \/ DebounceTimeout

SpecStale == InitWatch /\ [][NextStale]_vars

(***************************************************************************)
(* C1: for every viewport width of at least one tile plus two spacings,    *)
(* the grid has at least one column and its columns and the spacings       *)
(* between them fit into the usable width.                                 *)
(***************************************************************************)
C1_GridFits ==
    viewport_width >= MIN_TILE_EDGE + 2 * MIN_SPACING
        => /\ columns >= 1
           /\ columns * tile_edge + (columns - 1) * MIN_SPACING
                <= viewport_width - 2 * MIN_SPACING

\* a resize has produced a grid of three columns or more
C1_Witness ==
    /\ last_op.name = "resizeEvent"
    /\ viewport_width >= MIN_TILE_EDGE + 2 * MIN_SPACING
    /\ columns >= 3
    /\ tile_edge > MIN_TILE_EDGE

(***************************************************************************)
(* C2: after any sequence of enter, back, next, previous and jump page,    *)
(* sort change, rating filter toggle, resize and reload, the current page  *)
(* index lies in [0, totalPages - 1], where totalPages is computed from    *)
(* the folders and the filtered items of the current level.                *)
(***************************************************************************)
C2_PageInRange ==
    /\ 0 <= current_page
    /\ current_page <= total_pages(TotalTiles(Self)) - 1

(***************************************************************************)
(* C3: whenever delete_workshop_items sends a directory to the recycle     *)
(* bin, no VideoTile holds a movie, a buffer or data, be it a tile of the  *)
(* current page or one that an earlier rebuild of the grid replaced.       *)
(***************************************************************************)
C3_TrashAfterRelease ==
    \A k \in DOMAIN trash_log : trash_log[k].live = {}

(***************************************************************************)
(* C4: in every reachable state a tile that is not visible holds no movie, *)
(* no buffer and no data: the preview is acquired by the show event only   *)
(* and every hide releases it.                                             *)
(***************************************************************************)
C4_HiddenTileHoldsNothing ==
    /\ \A i \in DOMAIN tiles : ~tiles[i].visible => ~HoldsPreview(tiles[i])
    /\ \A d \in doomed : ~d.tile.visible => ~HoldsPreview(d.tile)

\* the window was hidden while tiles of the page played their previews
C4_Witness ==
    /\ last_op.name = "hideEvent"
    /\ last_op.arg > 0
    /\ \E i \in DOMAIN tiles : tiles[i].kind = "video" /\ ~tiles[i].visible

(***************************************************************************)
(* C5: a plain click on the tile at index i followed by a shift click on   *)
(* the tile at index j leaves exactly the tiles with an index between      *)
(* min(i, j) and max(i, j), both included, selected.                       *)
(***************************************************************************)
C5_ShiftClickSelectsRun ==
    (/\ last_op.name = "on_tile_clicked"
     /\ last_op.arg.shift
     /\ last_op.arg.idx # 0
     /\ last_op.arg.after # 0)
        => \A k \in DOMAIN tiles :
             tiles[k].selected
                <=> /\ k >= Min(last_op.arg.after, last_op.arg.idx)
                    /\ k <= Max(last_op.arg.after, last_op.arg.idx)

\* A was clicked, then D with shift, on a page of five tiles
C5_Witness ==
    /\ last_op.name = "on_tile_clicked"
    /\ last_op.arg.shift
    /\ last_op.arg.after = 1
    /\ last_op.arg.idx = 4
    /\ Len(tiles) = 5
    /\ {k \in DOMAIN tiles : tiles[k].selected} = 1..4

(***************************************************************************)
(* C6: after a reload that a file system change triggered, the restore by  *)
(* the breadcrumb titles gives the current children of before the reload   *)
(* when the title path still exists in the rebuilt tree, and otherwise the *)
(* navigation stack is the longest prefix of the titles that is a path     *)
(* from a root folder.                                                     *)
(***************************************************************************)
RECURSIVE PathExists(_, _)
PathExists(nodes, titles) ==
    \/ titles = <<>>
    \/ \E i \in DOMAIN nodes :
        /\ nodes[i].title = Head(titles)
        /\ PathExists(nodes[i].subfolders, Tail(titles))

LongestPathPrefix(nodes, titles) ==
    LET n == CHOOSE k \in 0..Len(titles) :
                /\ PathExists(nodes, SubSeq(titles, 1, k))
                /\ \A m \in (k+1)..Len(titles) : ~PathExists(nodes, SubSeq(titles, 1, m))
    IN SubSeq(titles, 1, n)

C6_RestoreReproducesChildren ==
    (/\ last_op.name = "do_reload_after_fs_event"
     /\ ~pre_nav.raised
     /\ pre_nav.titles # <<>>)
        => IF PathExists(folder_roots, pre_nav.titles)
           THEN /\ current_subfolders = pre_nav.subfolders
                /\ current_item_ids = pre_nav.item_ids
           ELSE Titles(nav_stack) = LongestPathPrefix(folder_roots, pre_nav.titles)

(***************************************************************************)
(* C7: in every reachable state the current subfolders and item ids are    *)
(* those of the top navigation frame, or, with an empty stack, the root    *)
(* list of the folder tree and the unassigned ids.                         *)
(***************************************************************************)
C7_ChildrenOfTopFrame ==
    IF nav_stack = <<>>
    THEN /\ current_subfolders = folder_roots
         /\ current_item_ids = root_unassigned_ids
    ELSE /\ current_subfolders = nav_stack[Len(nav_stack)].subfolders
         /\ current_item_ids = nav_stack[Len(nav_stack)].items

(***************************************************************************)
(* C8: a reload that finds the configuration unreadable leaves the item    *)
(* index, the folder tree, the unassigned ids, the navigation stack, the   *)
(* current children and the current page as they were.                     *)
(***************************************************************************)
C8_UnreadableConfigKeepsState ==
    [][((RefreshButton \/ DebounceTimeout) /\ disk_cfg.kind = "unreadable")
          => UNCHANGED <<id_map, folder_roots, root_unassigned_ids, nav_stack,
                         current_subfolders, current_item_ids, current_page>>]_vars

\* the refresh button was pressed inside a folder with config.json unreadable
C8_Witness ==
    /\ last_op.name = "reload_everything"
    /\ last_op.arg = 1
    /\ disk_cfg.kind = "unreadable"
    /\ nav_stack # <<>>
    /\ DOMAIN id_map # {}

(***************************************************************************)
(* C9: every file system notification restarts the single-shot timer of    *)
(* 500 ms and does nothing else to the window; the reload runs only when   *)
(* the timer has been left alone for the whole interval since the last     *)
(* notification, once for all the notifications before it, and leaves the  *)
(* timer stopped; and unless notifications keep arriving, the reload does  *)
(* run.                                                                    *)
(***************************************************************************)
C9_DebouncedReload ==
    /\ [][/\ OnFsEvent => (debounce' = DebounceInterval /\ UNCHANGED winVars)
          /\ DebounceTimeout => /\ quiet >= DebounceInterval
                                /\ burst >= 1
                                /\ debounce' = -1
                                /\ burst' = 0]_vars
    /\ []((debounce = -1) <=> (burst = 0))
    /\ ([]<>(debounce = -1) \/ []<><<OnFsEvent>>_vars)

\* one reload has answered two notifications, the second of which arrived
\* while the timer was running
C9_Witness ==
    /\ last_op.name = "do_reload_after_fs_event"
    /\ last_op.arg.burst = 2
    /\ last_op.arg.quiet >= DebounceInterval
    /\ debounce = -1

(***************************************************************************)
(* C10: the playlist handed to the player by "play this folder" and by     *)
(* "batch play" holds no video path twice.                                 *)
(***************************************************************************)
C10_PlaylistHasNoDuplicate ==
    \A i, j \in DOMAIN playlist : i # j => playlist[i] # playlist[j]

(***************************************************************************)
(* C11: once a batch is confirmed, the recycle bin is tried once on each   *)
(* directory of the batch, in order, whatever the earlier tries gave; the  *)
(* one report that follows names exactly the refused directories; and the  *)
(* report is left by one reload_everything, which runs nowhere else in the *)
(* handler                                                                 *)
(***************************************************************************)
C11_Report ==
    NoticeOpen =>
        /\ [k \in DOMAIN trash_log |-> trash_log[k].dir] = Top.dirs
        /\ \A i, j \in DOMAIN Top.dirs : i # j => Top.dirs[i] # Top.dirs[j]
        /\ Top.failed = {trash_log[k].dir : k \in {j \in DOMAIN trash_log :
                                                      ~trash_log[j].ok}}

C11_BatchThenOneReload ==
    /\ []C11_Report
    /\ [][(ConfirmOpen /\ ~ConfirmOpen'
             /\ last_op'.name = "send_to_recycle_bin") => NoticeOpen']_vars
    /\ [][(NoticeOpen /\ ~NoticeOpen')
            => (last_op'.name = "reload_after_delete" /\ modal' = <<>>)]_vars
    /\ [][(last_op'.name = "reload_after_delete" /\ last_op' # last_op)
            => NoticeOpen]_vars

C11_Witness ==
    /\ NoticeOpen
    /\ Len(Top.dirs) >= 2
    /\ ~trash_log[1].ok
    /\ trash_log[2].ok
    /\ Top.failed = {Top.dirs[1]}

(***************************************************************************)
(* C12: the scan of the workshop directory never aborts on one entry's     *)
(* metadata: it returns, and its index holds every entry of the directory  *)
(* that passes the per-entry checks; no reload stops in the scan           *)
(***************************************************************************)
C12_ScanSkipsBadEntry ==
    LET r == scan_workshop_items(disk_items)
    IN /\ ~r.raised
       /\ \A e \in disk_items : EntryAccepted(e) => e.name \in DOMAIN r.value
       /\ last_op.name = "reload_everything" => last_op.arg # 2

(***************************************************************************)
(* C13: the rendered tiles are the positions [k*page_size,                 *)
(* min((k+1)*page_size, N)) of the level's folders followed by its         *)
(* filtered and sorted items, k being the current page and N the length of *)
(* that sequence; the page count is max(1, ceil(N / page_size)), three     *)
(* pages of 45, 45 and 10 for N = 100; the pages cut the sequence into     *)
(* disjoint slices that cover it                                           *)
(***************************************************************************)
C13_LevelSequence ==
    LET sorted == current_videos_filtered_sorted(current_item_ids, id_map,
                                                 rating_checked, sort_index)
    IN [p \in 1..Len(current_subfolders) |->
            [kind |-> "folder", node |-> current_subfolders[p], item |-> NoItem]]
       \o [p \in 1..Len(sorted) |->
            [kind |-> "video", node |-> NoNode, item |-> id_map[sorted[p]]]]

C13_Ceil(n) == CHOOSE c \in 0..n : c * page_size >= n /\ (c - 1) * page_size < n

C13_Partition(n) ==
    /\ total_pages(n) = Max(1, C13_Ceil(n))
    /\ \A p \in 0..(n - 1) :
         Cardinality({k \in 0..(total_pages(n) - 1) :
                        /\ page_slice(k, n).start <= p
                        /\ p < page_slice(k, n).end}) = 1

C13_PageIsSlice ==
    LET seq == C13_LevelSequence
        N == Len(seq)
        lo == current_page * page_size
        hi == Min((current_page + 1) * page_size, N)
    IN /\ Len(tiles) = Max(0, hi - lo)
       /\ \A i \in DOMAIN tiles :
            /\ tiles[i].kind = seq[lo + i].kind
            /\ tiles[i].node = seq[lo + i].node
            /\ tiles[i].item = seq[lo + i].item
       /\ \A i, j \in DOMAIN seq :
            (seq[i].kind = "folder" /\ seq[j].kind = "video") => i < j
       /\ C13_Partition(N)
       /\ C13_Partition(100)
       /\ total_pages(100) = 3
       /\ [k \in 0..2 |-> page_slice(k, 100).end - page_slice(k, 100).start]
             = [k \in 0..2 |-> IF k = 2 THEN 10 ELSE 45]

C13_Witness ==
    /\ last_op.name = "next_page"
    /\ current_page = 1
    /\ tiles # <<>>
    /\ Len(tiles) < page_size
    /\ tiles[1].kind = "video"
    /\ Len(current_subfolders) > 0

(***************************************************************************)
(* C14: with usable = viewport width - 2 * MIN_SPACING, the column count   *)
(* is the largest c >= 1 whose c tiles of MIN_TILE_EDGE and c - 1 gaps fit *)
(* in usable, and 1 when not even one tile fits; the edge is               *)
(* max(MIN_TILE_EDGE, floor((usable - (c-1) * MIN_SPACING) / c)); so for   *)
(* every width the edge is at least MIN_TILE_EDGE and the columns at least *)
(* 1                                                                       *)
(***************************************************************************)
C14_Fits(c, usable) == c * MIN_TILE_EDGE + (c - 1) * MIN_SPACING <= usable

C14_MetricsFormula ==
    LET usable == viewport_width - 2 * MIN_SPACING
        m == compute_grid_metrics(viewport_width)
        fitting == {c \in 1..(MaxWidth + 1) : C14_Fits(c, usable)}
    IN /\ columns = m.cols
       /\ tile_edge = m.edge
       /\ columns >= 1
       /\ tile_edge >= MIN_TILE_EDGE
       /\ IF fitting = {} THEN columns = 1
          ELSE columns \in fitting /\ \A c \in fitting : c <= columns
       /\ tile_edge = Max(MIN_TILE_EDGE,
                          (usable - (columns - 1) * MIN_SPACING) \div columns)

C14_Witness ==
    /\ last_op.name = "resizeEvent"
    /\ viewport_width > 2 * MIN_SPACING
    /\ viewport_width - 2 * MIN_SPACING < MIN_TILE_EDGE
    /\ columns = 1
    /\ tile_edge = MIN_TILE_EDGE

(***************************************************************************)
(* C15: after every reload that completes, the unassigned ids are the ids  *)
(* of the item index that no folder node reachable from the roots lists,   *)
(* each once; none of them is absent from the index                        *)
(***************************************************************************)
RECURSIVE C15_Listed(_)
C15_Listed(nodes) ==
    IF nodes = <<>> THEN {}
    ELSE Range(Head(nodes).items)
            \cup C15_Listed(Head(nodes).subfolders)
            \cup C15_Listed(Tail(nodes))

C15_ReloadCompleted ==
    \/ last_op.name = "init"
    \/ last_op.name \in {"reload_everything", "reload_after_delete"}
         /\ last_op.arg = 0
    \/ last_op.name = "do_reload_after_fs_event" /\ ~pre_nav.raised

C15_UnassignedIsDifference ==
    C15_ReloadCompleted =>
        /\ Range(root_unassigned_ids) = DOMAIN id_map \ C15_Listed(folder_roots)
        /\ Cardinality(Range(root_unassigned_ids)) = Len(root_unassigned_ids)
        /\ Range(root_unassigned_ids) \subseteq DOMAIN id_map

C15_Witness ==
    /\ last_op.name = "reload_everything"
    /\ last_op.arg = 0
    /\ root_unassigned_ids # <<>>
    /\ \E i \in DOMAIN folder_roots :
         /\ folder_roots[i].subfolders # <<>>
         /\ \E x \in C15_Listed(folder_roots[i].subfolders) :
              /\ x \in DOMAIN id_map
              /\ x \notin Range(folder_roots[i].items)
    /\ C15_Listed(folder_roots) \ DOMAIN id_map # {}

(***************************************************************************)
(* C16: when the filtered items of the level have pairwise distinct        *)
(* modification times, their order under "time, newest first" is the       *)
(* order under "time, oldest first" read backwards                         *)
(***************************************************************************)
C16_DescIsReverseOfAsc ==
    LET desc == current_videos_filtered_sorted(current_item_ids, id_map,
                                               rating_checked, 0)
        asc == current_videos_filtered_sorted(current_item_ids, id_map,
                                              rating_checked, 1)
        distinct == \A i, j \in DOMAIN asc :
                        i # j => id_map[asc[i]].mtime # id_map[asc[j]].mtime
    IN distinct =>
         /\ Len(desc) = Len(asc)
         /\ \A k \in DOMAIN desc : desc[k] = asc[Len(asc) + 1 - k]

C16_Witness ==
    /\ last_op.name = "sort_changed"
    /\ last_op.arg = 1
    /\ sort_index = 1
    /\ Len(tiles) >= 4
    /\ \A i \in DOMAIN tiles :
         (i > 1 /\ tiles[i - 1].kind = "video")
            => tiles[i - 1].item.mtime < tiles[i].item.mtime
    /\ \E i \in DOMAIN tiles :
         /\ i + 1 \in DOMAIN tiles
         /\ tiles[i].kind = "video"
         /\ tiles[i].item.size < tiles[i + 1].item.size

C18_CtrlOnly == [shift |-> FALSE, ctrl |-> TRUE]

C18_CtrlClickTogglesOne ==
    [][TileClicked(TileRefs, {C18_CtrlOnly}) =>
        LET idx == last_op'.arg.idx
        IN /\ DOMAIN tiles' = DOMAIN tiles
           /\ \A k \in DOMAIN tiles : k # idx => tiles'[k] = tiles[k]
           /\ idx # 0 =>
                /\ tiles'[idx] = [tiles[idx] EXCEPT !.selected = ~tiles[idx].selected]
                /\ doomed' = doomed
           /\ idx = 0 =>
                \E d \in doomed :
                    doomed' = (doomed \ {d})
                        \cup {[d EXCEPT !.tile.selected = ~d.tile.selected]}]_vars

\* three tiles were selected; the click took the second of them out
C18_Witness ==
    /\ last_op.name = "on_tile_clicked"
    /\ last_op.arg.ctrl
    /\ ~last_op.arg.shift
    /\ last_op.arg.idx = 2
    /\ last_op.arg.nsel = 3
    /\ {k \in DOMAIN tiles : tiles[k].selected} = {1, 3}

(***************************************************************************)
(* C19: after each movement of a rubber band drag with rectangle R, every  *)
(* tile of the page whose geometry and R have a point in common is         *)
(* selected; a tile that has none is deselected when Ctrl is not held and  *)
(* keeps its flag when Ctrl is held                                        *)
(***************************************************************************)
C19_Overlap(g, r) ==
    /\ Max(g.x1, r.x1) <= Min(g.x2, r.x2)
    /\ Max(g.y1, r.y1) <= Min(g.y2, r.y2)

C20_InvalidJumpChangesNothing ==
    [][(/\ last_op'.name = "jump_to_page"
        /\ last_op' # last_op
        /\ \/ last_op'.arg = -1
           \/ last_op'.arg < 1
           \/ last_op'.arg > total_pages(TotalTiles(Self)))
        => /\ current_page' = current_page
           /\ tiles' = tiles
           /\ nav_stack' = nav_stack
           /\ doomed' = doomed
           /\ UNCHANGED winVars]_vars

\* page 3 of 2 was asked for on page 2, with tiles selected
C20_Witness ==
    /\ last_op.name = "jump_to_page"
    /\ last_op.arg = 3
    /\ total_pages(TotalTiles(Self)) = 2
    /\ current_page = 1
    /\ \E i \in DOMAIN tiles : tiles[i].selected

(***************************************************************************)
(* C22: every navigation frame and every current subfolder is a node of    *)
(* the folder tree built by the last reload: no folder is entered with a   *)
(* node that a menu captured from a tree a later reload has replaced       *)
(***************************************************************************)
RECURSIVE C22_Nodes(_)
C22_Nodes(nodes) ==
    IF nodes = <<>> THEN {}
    ELSE {Head(nodes)} \cup C22_Nodes(Head(nodes).subfolders)
                       \cup C22_Nodes(Tail(nodes))

C22_NodesOfCurrentTree ==
    LET live == C22_Nodes(folder_roots)
    IN /\ \A i \in DOMAIN nav_stack : \E n \in live : Frame(n) = nav_stack[i]
       /\ \A i \in DOMAIN current_subfolders : current_subfolders[i] \in live

(***************************************************************************)
(* C21: with folder nodes that list ids absent from the item index, every  *)
(* video tile of the page shows an item of the index, and every item of a  *)
(* playlist just handed to the player is an item of the index              *)
(***************************************************************************)
C21_ResolvedItemsAreIndexed ==
    /\ \A i \in DOMAIN tiles :
         tiles[i].kind = "video" =>
            /\ tiles[i].item.id \in DOMAIN id_map
            /\ id_map[tiles[i].item.id] = tiles[i].item
    /\ last_op.name \in {"play_folders", "play_mixed"} =>
         \A k \in DOMAIN playlist : playlist[k].dir \in DOMAIN id_map

(***************************************************************************)
(* C23: the menu opened on a folder tile acts on the node the tile was     *)
(* rendered from, the one a double click on the tile enters: "open this    *)
(* folder" and "play this folder" hold that node, and "batch play" holds   *)
(* the nodes of the selected folder tiles, also among siblings of one      *)
(* title                                                                   *)
(***************************************************************************)
C23_MenuActsOnTileNode ==
    (/\ MenuOpen
     /\ last_op.name = "on_tile_context"
     /\ last_op.arg # 0
     /\ tiles[last_op.arg].kind = "folder")
        => /\ Top.folder_single => Top.node = tiles[last_op.arg].node
           /\ LET isFolder(t) == t.kind = "folder"
                  fts == SelectSeq(selected_tiles(Self), isFolder)
              IN Top.folder_nodes = [i \in 1..Len(fts) |-> fts[i].node]

(***************************************************************************)
(* C24: in every state the item index, the folder tree and the unassigned  *)
(* ids are those that one reload of some configuration and library gives   *)
(* together, and the navigation frames and the current subfolders are      *)
(* nodes of that tree                                                      *)
(***************************************************************************)
C24_StateOfOneReload ==
    /\ \E cfg \in NavCfgs, lib \in NavLibs :
         LET r == reload_everything(Blank(viewport_width), cfg, lib)
         IN /\ ~r.raised
            /\ r.self.folder_roots = folder_roots
            /\ r.self.id_map = id_map
            /\ r.self.root_unassigned_ids = root_unassigned_ids
    /\ \A i \in DOMAIN nav_stack :
         \E n \in C22_Nodes(folder_roots) : Frame(n) = nav_stack[i]
    /\ current_subfolders = <<>>
         \/ current_subfolders = folder_roots
         \/ \E n \in C22_Nodes(folder_roots) : current_subfolders = n.subfolders

(***************************************************************************)
(* C25: a resize that changes the grid metrics rescales the previews in    *)
(* place: the step of resizeEvent that changes the column count or the     *)
(* tile edge keeps every tile of the page, with the preview it holds, and  *)
(* hands no tile that holds a preview to deleteLater, so that no preview   *)
(* is released and acquired again because of the resize.                   *)
(***************************************************************************)
C25_ResizeKeepsPreviews ==
    [][(/\ viewport_width' # viewport_width
        /\ columns' # columns \/ tile_edge' # tile_edge)
          => /\ Len(tiles') = Len(tiles)
             /\ \A i \in DOMAIN tiles :
                  HoldsPreview(tiles[i]) => HoldsPreview(tiles'[i])
             /\ {d \in doomed' : HoldsPreview(d.tile)}
                  = {d \in doomed : HoldsPreview(d.tile)}]_vars

(***************************************************************************)
(* C26: for every item handed to the destructive batch action the trash is *)
(* attempted on the directory that owns it: the confirmation that          *)
(* delete_workshop_items opens lists the directory of every item it was    *)
(* given, and after Yes the recycle bin has been called on each of them,   *)
(* whatever the number of digits of the directory name the scan accepted.  *)
(***************************************************************************)
C26_Handed(frame) ==
    IF frame.single_video THEN <<frame.item>> ELSE frame.video_items

C26_EveryItemIsTrashed ==
    [][/\ (MenuOpen /\ last_op'.name = "delete_workshop_items")
          => /\ modal' # <<>>
             /\ modal'[Len(modal')].kind = "confirm"
             /\ \A i \in DOMAIN C26_Handed(Top) :
                  C26_Handed(Top)[i].video_path.dir
                      \in Range(modal'[Len(modal')].dirs)
       /\ (ConfirmOpen /\ last_op'.name = "send_to_recycle_bin")
          => \A i \in DOMAIN C26_Handed(modal[1]) :
               \E k \in DOMAIN trash_log' :
                  trash_log'[k].dir = C26_Handed(modal[1])[i].video_path.dir]_vars

(***************************************************************************)
(* C27: nav_back on an empty navigation stack changes nothing of the       *)
(* window: stack, current children, page and tiles stay as they are.  On a *)
(* stack that is not empty it removes exactly the last frame, makes the    *)
(* children of the new last frame current, or the root folders and the     *)
(* unassigned items when none is left, and sets the page to 0.  Hence      *)
(* nav_back after enter_folder gives back the stack and the current        *)
(* children that enter_folder found.                                       *)
(***************************************************************************)
C27_BackUndoesEnter ==
    [][/\ (last_op'.name = "nav_back" /\ UNCHANGED <<envVars, loopVars>>)
          => IF nav_stack = <<>>
             THEN UNCHANGED winVars
             ELSE LET popped == SubSeq(nav_stack, 1, Len(nav_stack) - 1)
                  IN /\ nav_stack' = popped
                     /\ current_page' = 0
                     /\ popped = <<>> =>
                          /\ current_subfolders' = folder_roots
                          /\ current_item_ids' = root_unassigned_ids
                     /\ popped # <<>> =>
                          /\ current_subfolders' = popped[Len(popped)].subfolders
                          /\ current_item_ids' = popped[Len(popped)].items
       /\ (last_op'.name = "enter_folder" /\ Len(nav_stack') = Len(nav_stack) + 1)
          => LET b == nav_back(Self')
             IN /\ b.nav_stack = nav_stack
                /\ b.current_subfolders = current_subfolders
                /\ b.current_item_ids = current_item_ids]_vars

(***************************************************************************)
(* C28: a preview that cannot be acquired does not make ensure_movie fail: *)
(* the tile is shown without preview.  After ensure_movie or release_movie *)
(* has run on a tile, its movie, buffer and data are all three present or  *)
(* all three absent, and an acquisition that failed leaves all three       *)
(* absent.  Stated for every tile the window holds, on the page or handed  *)
(* to deleteLater, and for the next call of either function on it.         *)
(***************************************************************************)
C28_AllOrNone(t) == (t.movie /\ t.buf /\ t.data) \/ ~HoldsPreview(t)

RebuildingOps ==
    {"resizeEvent", "nav_back", "reload_everything", "sort_changed",
     "rating_toggled", "next_page", "previous_page", "jump_to_page",
     "enter_folder", "reload_after_delete", "do_reload_after_fs_event"}

C29_SameTile(a, b) ==
    /\ a.kind = b.kind /\ a.title = b.title
    /\ a.node = b.node /\ a.item = b.item

C29_RebuildClearsSelection ==
    [][/\ (last_op'.name \in RebuildingOps
             /\ (tiles' # tiles \/ doomed' # doomed))
          => /\ \A i \in DOMAIN tiles' : ~tiles'[i].selected
             /\ selected_tiles(Self') = <<>>
       /\ (\E i \in DOMAIN tiles' : tiles'[i].selected)
          => LET page == PageTiles(Self')
                 sel == selected_tiles(Self')
             IN \A i \in DOMAIN tiles' :
                  tiles'[i].selected
                     => /\ i \in DOMAIN page
                        /\ C29_SameTile(tiles'[i], page[i])
                        /\ \E k \in DOMAIN sel : sel[k] = tiles'[i]]_vars

\* the second page has just been built while tiles of the first were
\* selected: the old tiles await their deletion, still marked
C29_Witness ==
    /\ last_op.name = "next_page"
    /\ current_page = 1
    /\ tiles # <<>>
    /\ \E d \in doomed : d.tile.selected
    /\ selected_tiles(Self) = <<>>

(***************************************************************************)
(* C30: _last_focus_index is unset or a valid index into _tiles, the index *)
(* of the tile of the page that was clicked last since the grid was last   *)
(* rebuilt.  A click on a tile of the page sets it, with any modifier;     *)
(* every rebuild unsets it; the rubber band, Ctrl+A and every other step   *)
(* leave it as it is.                                                      *)
(***************************************************************************)
C30_FocusFollowsClicks ==
    [][/\ last_focus_index' = -1 \/ last_focus_index' \in DOMAIN tiles'
       /\ IF last_op'.name = "on_tile_clicked"
          THEN IF last_op'.arg.idx # 0
               THEN last_focus_index' = last_op'.arg.idx
               ELSE last_focus_index' = last_focus_index
          ELSE IF /\ last_op'.name \in RebuildingOps
                  /\ (tiles' # tiles \/ doomed' # doomed)
               THEN last_focus_index' = -1
               ELSE last_focus_index' = last_focus_index]_vars

\* the rubber band has selected tiles after a click on the second tile, and
\* the click is still the one remembered
C30_Witness ==
    /\ last_op.name = "rubber_move"
    /\ last_focus_index = 2
    /\ \E i \in DOMAIN tiles : i # 2 /\ tiles[i].selected
    /\ ~tiles[2].selected

=============================================================================
